---- MODULE Spec2Model ----
(***************************************************************************)
(* Model of the scrape path of solana_exporter                             *)
(* (cmd/solana_exporter/exporter.go): SolanaCollector.Collect and the six  *)
(* sub-collections it calls, run by one or several concurrent scrapes.     *)
(*                                                                         *)
(* ch[s] is the sequence of metrics scrape s has sent on its channel; the  *)
(* registry on the other side keeps receiving, so a send never blocks.     *)
(* One action is one sub-collection: the upstream query, its response and  *)
(* every send the response leads to.                                       *)
(***************************************************************************)
EXTENDS Integers, Sequences, FiniteSets, TLC

VARIABLES workload, collector, pc, ctx, ch, resp, calls, unpackCalls, terminated

vars == <<workload, collector, pc, ctx, ch, resp, calls, unpackCalls, terminated>>

(* ------------------------------ bounds --------------------------------- *)

\* longest vote-accounts result (current and delinquent together)
MaxAccounts == 2
\* number of scrapes that may be in flight at once in the concurrent workload
MaxConcurrent == 2

Slots == 1..MaxConcurrent

(* ---------------------------- constants -------------------------------- *)

StateLabel == "state"
NodekeyLabel == "nodekey"
VotekeyLabel == "votekey"
VersionLabel == "version"
AddressLabel == "address"
IdentityLabel == "identity"
StateCurrent == "current"
StateDelinquent == "delinquent"

(* ------------------------- sequence helpers ---------------------------- *)

Range(q) == {q[i] : i \in 1..Len(q)}

Count(q, o) == Cardinality({i \in 1..Len(q) : q[i] = o})

\* the same metrics, in any order
SameMetrics(a, b) ==
    /\ Len(a) = Len(b)
    /\ \A o \in Range(a) \cup Range(b) : Count(a, o) = Count(b, o)

\* sequences over S of length at most n without a repeated element
RECURSIVE DistinctSeqs(_, _)
DistinctSeqs(S, n) ==
    IF n = 0 THEN {<<>>}
    ELSE LET shorter == DistinctSeqs(S, n - 1)
         IN  shorter \cup {Append(q, x) : <<q, x>> \in
                               {p \in shorter \X S : p[2] \notin Range(p[1])}}

(* ------------------------- metric descriptors -------------------------- *)

NewGaugeDesc(name, labels) == [name |-> name, labels |-> labels]

\* float64(n): exact for every value the model uses (|n| < 2^53)
Float64(n) == n

MustNewConstMetric(desc, value, labelValues) ==
    [family |-> desc.name, invalid |-> FALSE, value |-> Float64(value),
     labels |-> labelValues, err |-> ""]

NewInvalidMetric(desc, err) ==
    [family |-> desc.name, invalid |-> TRUE, value |-> 0,
     labels |-> <<>>, err |-> err]

(* --------------------------- the collector ----------------------------- *)

RECURSIVE Dedup(_, _)
Dedup(q, seen) ==
    IF q = <<>> THEN <<>>
    ELSE IF Head(q) \in seen THEN Dedup(Tail(q), seen)
         ELSE <<Head(q)>> \o Dedup(Tail(q), seen \cup {Head(q)})

CombineUnique(a, b, c) == Dedup(a \o b \o c, {})

NewSolanaCollector(balanceAddresses, nodekeys, votekeys, identity) ==
    [balanceAddresses |-> CombineUnique(balanceAddresses, nodekeys, votekeys),
     identity |-> identity,
     ValidatorActive |-> NewGaugeDesc("solana_validator_active", <<StateLabel>>),
     ValidatorActiveStake |->
         NewGaugeDesc("solana_validator_active_stake", <<VotekeyLabel, NodekeyLabel>>),
     ValidatorLastVote |->
         NewGaugeDesc("solana_validator_last_vote", <<VotekeyLabel, NodekeyLabel>>),
     ValidatorRootSlot |->
         NewGaugeDesc("solana_validator_root_slot", <<VotekeyLabel, NodekeyLabel>>),
     ValidatorDelinquent |->
         NewGaugeDesc("solana_validator_delinquent", <<VotekeyLabel, NodekeyLabel>>),
     AccountBalances |-> NewGaugeDesc("solana_account_balance", <<AddressLabel>>),
     NodeVersion |-> NewGaugeDesc("solana_node_version", <<VersionLabel>>),
     NodeIsHealthy |-> NewGaugeDesc("solana_node_is_healthy", <<IdentityLabel>>),
     NodeNumSlotsBehind |->
         NewGaugeDesc("solana_node_num_slots_behind", <<IdentityLabel>>),
     NodeMinimumLedgerSlot |->
         NewGaugeDesc("solana_node_minimum_ledger_slot", <<IdentityLabel>>),
     NodeFirstAvailableBlock |->
         NewGaugeDesc("solana_node_first_available_block", <<IdentityLabel>>)]

\* the configuration main() hands to NewSolanaCollector
TheCollector == NewSolanaCollector(<<"V1">>, <<"N1">>, <<"V1">>, "ID")

(* ------------------------- upstream responses -------------------------- *)

Validators ==
    {[VotePubkey |-> "V1", NodePubkey |-> "N1", ActivatedStake |-> 100,
      LastVote |-> 50, RootSlot |-> 40],
     [VotePubkey |-> "V2", NodePubkey |-> "N2", ActivatedStake |-> 200,
      LastVote |-> 51, RootSlot |-> 41],
     [VotePubkey |-> "V3", NodePubkey |-> "N1", ActivatedStake |-> 0,
      LastVote |-> 52, RootSlot |-> 42]}

NoVote == [status |-> "none", Current |-> <<>>, Delinquent |-> <<>>, err |-> ""]
VoteErr ==
    [status |-> "err", Current |-> <<>>, Delinquent |-> <<>>,
     err |-> "vote accounts: timeout"]
VoteOk(cur, del) == [status |-> "ok", Current |-> cur, Delinquent |-> del, err |-> ""]

\* a vote-accounts result lists every validator once, in one partition
VoteResults ==
    LET lists == DistinctSeqs(Validators, MaxAccounts)
    IN  {VoteOk(c, d) : <<c, d>> \in
            {p \in lists \X lists :
                /\ Len(p[1]) + Len(p[2]) <= MaxAccounts
                /\ Range(p[1]) \cap Range(p[2]) = {}}}

NoScalar == [status |-> "none", value |-> 0, err |-> ""]
ScalarErr(e) == [status |-> "err", value |-> 0, err |-> e]
ScalarOk(v) == [status |-> "ok", value |-> v, err |-> ""]

NoVersion == [status |-> "none", version |-> "", err |-> ""]
VersionErr == [status |-> "err", version |-> "", err |-> "version: timeout"]
VersionOk(v) == [status |-> "ok", version |-> v, err |-> ""]

NoBalances == [status |-> "none", balances |-> {}, err |-> ""]
BalancesErr == [status |-> "err", balances |-> {}, err |-> "balances: timeout"]
BalancesOk(b) == [status |-> "ok", balances |-> b, err |-> ""]

\* GetHealth: nil error, a transport error, or an *rpc.RPCError whose Data is
\* nil, undecodable, or a NodeUnhealthyErrorData
NoHealth == [status |-> "none", rpcError |-> FALSE, hasData |-> FALSE,
             decodable |-> FALSE, numSlotsBehind |-> 0, err |-> ""]
HealthOk == [NoHealth EXCEPT !.status = "ok"]
HealthTransportErr == [NoHealth EXCEPT !.status = "err", !.err = "health: timeout"]
HealthRpcNoData ==
    [NoHealth EXCEPT !.status = "err", !.rpcError = TRUE, !.err = "rpc: internal error"]
HealthRpcGarbage ==
    [NoHealth EXCEPT !.status = "err", !.rpcError = TRUE, !.hasData = TRUE,
                     !.err = "rpc: unexpected data"]
HealthUnhealthy(n) ==
    [NoHealth EXCEPT !.status = "err", !.rpcError = TRUE, !.hasData = TRUE,
                     !.decodable = TRUE, !.numSlotsBehind = n,
                     !.err = "rpc: node is unhealthy"]

SlotsBehindValues == {0, 7}

VoteResponses(w) ==
    IF w = "sequential" THEN VoteResults \cup {VoteErr}
    ELSE {VoteErr,
          VoteOk(<<CHOOSE v \in Validators : v.VotePubkey = "V1">>,
                 <<CHOOSE v \in Validators : v.VotePubkey = "V2">>)}

VersionResponses(w) ==
    IF w = "sequential" THEN {VersionOk("1.18.22"), VersionErr}
    ELSE {VersionOk("1.18.22")}

\* the balance the node reports for an address
BalanceOf(a) == IF a = "V1" THEN 5 ELSE 3

BalancesResponses(w) ==
    IF w = "sequential"
    THEN {BalancesOk({<<a, BalanceOf(a)>> : a \in Range(TheCollector.balanceAddresses)}),
          BalancesErr}
    ELSE {BalancesOk({<<a, BalanceOf(a)>> : a \in Range(TheCollector.balanceAddresses)})}

HealthResponses(w) ==
    IF w = "sequential"
    THEN {HealthOk, HealthTransportErr, HealthRpcNoData, HealthRpcGarbage}
            \cup {HealthUnhealthy(n) : n \in SlotsBehindValues}
    ELSE {HealthOk, HealthRpcGarbage, HealthUnhealthy(7)}

MinimumLedgerSlotResponses(w) ==
    IF w = "sequential" THEN {ScalarOk(10), ScalarErr("minimum ledger slot: timeout")}
    ELSE {ScalarOk(10)}

FirstAvailableBlockResponses(w) ==
    IF w = "sequential" THEN {ScalarOk(11), ScalarErr("first available block: timeout")}
    ELSE {ScalarOk(11)}

NoResp == [voteAccounts |-> NoVote, version |-> NoVersion, balances |-> NoBalances,
           health |-> NoHealth, minimumLedgerSlot |-> NoScalar,
           firstAvailableBlock |-> NoScalar]

(* -------------------------- sub-collections ---------------------------- *)

Stages == {"voteAccounts", "version", "balances", "health",
           "minimumLedgerSlot", "firstAvailableBlock"}

RECURSIVE AccountMetrics(_, _)
AccountMetrics(c, accounts) ==
    IF accounts = <<>> THEN <<>>
    ELSE LET account == Head(accounts)
             keys == <<account.VotePubkey, account.NodePubkey>>
         IN  <<MustNewConstMetric(c.ValidatorActiveStake, account.ActivatedStake, keys),
               MustNewConstMetric(c.ValidatorLastVote, account.LastVote, keys),
               MustNewConstMetric(c.ValidatorRootSlot, account.RootSlot, keys)>>
             \o AccountMetrics(c, Tail(accounts))

RECURSIVE DelinquentMetrics(_, _, _)
DelinquentMetrics(c, accounts, value) ==
    IF accounts = <<>> THEN <<>>
    ELSE <<MustNewConstMetric(c.ValidatorDelinquent, value,
                              <<Head(accounts).VotePubkey, Head(accounts).NodePubkey>>)>>
         \o DelinquentMetrics(c, Tail(accounts), value)

\* mutant: the root-slot family gets no sentinel when the query fails
collectVoteAccounts_noRootSentinel(c, r) ==
    IF r.status = "err"
    THEN <<NewInvalidMetric(c.ValidatorActive, r.err),
           NewInvalidMetric(c.ValidatorActiveStake, r.err),
           NewInvalidMetric(c.ValidatorLastVote, r.err),
           NewInvalidMetric(c.ValidatorDelinquent, r.err)>>
    ELSE <<MustNewConstMetric(c.ValidatorActive, Len(r.Delinquent), <<StateDelinquent>>),
           MustNewConstMetric(c.ValidatorActive, Len(r.Current), <<StateCurrent>>)>>
         \o AccountMetrics(c, r.Current \o r.Delinquent)
         \o DelinquentMetrics(c, r.Current, 0)
         \o DelinquentMetrics(c, r.Delinquent, 1)

\* mutant: the current count is taken over the appended list
collectVoteAccounts_countAll(c, r) ==
    IF r.status = "err"
    THEN <<NewInvalidMetric(c.ValidatorActive, r.err),
           NewInvalidMetric(c.ValidatorActiveStake, r.err),
           NewInvalidMetric(c.ValidatorLastVote, r.err),
           NewInvalidMetric(c.ValidatorRootSlot, r.err),
           NewInvalidMetric(c.ValidatorDelinquent, r.err)>>
    ELSE <<MustNewConstMetric(c.ValidatorActive, Len(r.Delinquent), <<StateDelinquent>>),
           MustNewConstMetric(c.ValidatorActive, Len(r.Current \o r.Delinquent),
                              <<StateCurrent>>)>>
         \o AccountMetrics(c, r.Current \o r.Delinquent)
         \o DelinquentMetrics(c, r.Current, 0)
         \o DelinquentMetrics(c, r.Delinquent, 1)

\* mutant: the two delinquency loops carry each other's value
collectVoteAccounts_swapped(c, r) ==
    IF r.status = "err"
    THEN <<NewInvalidMetric(c.ValidatorActive, r.err),
           NewInvalidMetric(c.ValidatorActiveStake, r.err),
           NewInvalidMetric(c.ValidatorLastVote, r.err),
           NewInvalidMetric(c.ValidatorRootSlot, r.err),
           NewInvalidMetric(c.ValidatorDelinquent, r.err)>>
    ELSE <<MustNewConstMetric(c.ValidatorActive, Len(r.Delinquent), <<StateDelinquent>>),
           MustNewConstMetric(c.ValidatorActive, Len(r.Current), <<StateCurrent>>)>>
         \o AccountMetrics(c, r.Current \o r.Delinquent)
         \o DelinquentMetrics(c, r.Current, 1)
         \o DelinquentMetrics(c, r.Delinquent, 0)

\* mutant: no return after the sentinels
collectVoteAccounts_noReturn(c, r) ==
    (IF r.status = "err"
     THEN <<NewInvalidMetric(c.ValidatorActive, r.err),
            NewInvalidMetric(c.ValidatorActiveStake, r.err),
            NewInvalidMetric(c.ValidatorLastVote, r.err),
            NewInvalidMetric(c.ValidatorRootSlot, r.err),
            NewInvalidMetric(c.ValidatorDelinquent, r.err)>>
     ELSE <<>>)
    \o <<MustNewConstMetric(c.ValidatorActive, Len(r.Delinquent), <<StateDelinquent>>),
         MustNewConstMetric(c.ValidatorActive, Len(r.Current), <<StateCurrent>>)>>
    \o AccountMetrics(c, r.Current \o r.Delinquent)
    \o DelinquentMetrics(c, r.Current, 0)
    \o DelinquentMetrics(c, r.Delinquent, 1)

collectVoteAccounts(c, r) ==
    IF r.status = "err"
    THEN <<NewInvalidMetric(c.ValidatorActive, r.err),
           NewInvalidMetric(c.ValidatorActiveStake, r.err),
           NewInvalidMetric(c.ValidatorLastVote, r.err),
           NewInvalidMetric(c.ValidatorRootSlot, r.err),
           NewInvalidMetric(c.ValidatorDelinquent, r.err)>>
    ELSE <<MustNewConstMetric(c.ValidatorActive, Len(r.Delinquent), <<StateDelinquent>>),
           MustNewConstMetric(c.ValidatorActive, Len(r.Current), <<StateCurrent>>)>>
         \o AccountMetrics(c, r.Current \o r.Delinquent)
         \o DelinquentMetrics(c, r.Current, 0)
         \o DelinquentMetrics(c, r.Delinquent, 1)

collectVersion(c, r) ==
    IF r.status = "err"
    THEN <<NewInvalidMetric(c.NodeVersion, r.err)>>
    ELSE <<MustNewConstMetric(c.NodeVersion, 1, <<r.version>>)>>

collectMinimumLedgerSlot(c, r) ==
    IF r.status = "err"
    THEN <<NewInvalidMetric(c.NodeMinimumLedgerSlot, r.err)>>
    ELSE <<MustNewConstMetric(c.NodeMinimumLedgerSlot, r.value, <<c.identity>>)>>

collectFirstAvailableBlock(c, r) ==
    IF r.status = "err"
    THEN <<NewInvalidMetric(c.NodeFirstAvailableBlock, r.err)>>
    ELSE <<MustNewConstMetric(c.NodeFirstAvailableBlock, r.value, <<c.identity>>)>>

\* FetchBalances: the balance of every queried address, or the first error
FetchBalances(addresses, r) ==
    IF r.status = "err" THEN r
    ELSE BalancesOk({p \in r.balances : p[1] \in Range(addresses)})

\* order is the order in which the range over the balances map visits it
RECURSIVE BalanceMetrics(_, _)
BalanceMetrics(c, order) ==
    IF order = <<>> THEN <<>>
    ELSE <<MustNewConstMetric(c.AccountBalances, Head(order)[2], <<Head(order)[1]>>)>>
         \o BalanceMetrics(c, Tail(order))

MapOrders(balances) ==
    {q \in DistinctSeqs(balances, Cardinality(balances)) : Len(q) = Cardinality(balances)}

collectBalances(c, r, order) ==
    LET fetched == FetchBalances(c.balanceAddresses, r)
    IN  IF fetched.status = "err"
        THEN <<NewInvalidMetric(c.AccountBalances, fetched.err)>>
        ELSE BalanceMetrics(c, order)

\* rpc.UnpackRpcErrorData(rpcError, errorData): "ok" or "err".  The second
\* argument is passed by value, so the caller's errorData is not written.
UnpackRpcErrorData(r) == IF r.decodable THEN "ok" ELSE "err"

\* the zero value of rpc.NodeUnhealthyErrorData
ZeroErrorData == [NumSlotsBehind |-> 0]

\* mutant: no rpcError.Data == nil check before the payload is unpacked
collectHealth_noNilCheck(c, r) ==
    LET invalid == <<NewInvalidMetric(c.NodeIsHealthy, r.err),
                     NewInvalidMetric(c.NodeNumSlotsBehind, r.err)>>
        metrics(isHealthy, numSlotsBehind) ==
            <<MustNewConstMetric(c.NodeIsHealthy, isHealthy, <<c.identity>>),
              MustNewConstMetric(c.NodeNumSlotsBehind, numSlotsBehind, <<c.identity>>)>>
    IN  IF r.status = "ok"
        THEN [out |-> metrics(1, 0), fatal |-> FALSE, unpack |-> 0]
        ELSE IF r.rpcError
             THEN LET errorData == ZeroErrorData
                  IN  IF UnpackRpcErrorData(r) = "err"
                      THEN [out |-> <<>>, fatal |-> TRUE, unpack |-> 1]
                      ELSE [out |-> metrics(0, errorData.NumSlotsBehind),
                            fatal |-> FALSE, unpack |-> 1]
             ELSE [out |-> invalid, fatal |-> FALSE, unpack |-> 0]

\* mutant: the unpack failure is logged with Errorf instead of Fatalf
collectHealth_logOnly(c, r) ==
    LET invalid == <<NewInvalidMetric(c.NodeIsHealthy, r.err),
                     NewInvalidMetric(c.NodeNumSlotsBehind, r.err)>>
        metrics(isHealthy, numSlotsBehind) ==
            <<MustNewConstMetric(c.NodeIsHealthy, isHealthy, <<c.identity>>),
              MustNewConstMetric(c.NodeNumSlotsBehind, numSlotsBehind, <<c.identity>>)>>
    IN  IF r.status = "ok"
        THEN [out |-> metrics(1, 0), fatal |-> FALSE, unpack |-> 0]
        ELSE IF r.rpcError
             THEN IF ~r.hasData
                  THEN [out |-> invalid, fatal |-> FALSE, unpack |-> 0]
                  ELSE LET errorData == ZeroErrorData
                       IN  [out |-> metrics(0, errorData.NumSlotsBehind),
                            fatal |-> FALSE, unpack |-> 1]
             ELSE [out |-> invalid, fatal |-> FALSE, unpack |-> 0]

\* result: the metrics sent, whether logger.Fatalf ended the process, and the
\* number of UnpackRpcErrorData calls
collectHealth(c, r) ==
    LET invalid == <<NewInvalidMetric(c.NodeIsHealthy, r.err),
                     NewInvalidMetric(c.NodeNumSlotsBehind, r.err)>>
        metrics(isHealthy, numSlotsBehind) ==
            <<MustNewConstMetric(c.NodeIsHealthy, isHealthy, <<c.identity>>),
              MustNewConstMetric(c.NodeNumSlotsBehind, numSlotsBehind, <<c.identity>>)>>
    IN  IF r.status = "ok"
        THEN [out |-> metrics(1, 0), fatal |-> FALSE, unpack |-> 0]
        ELSE IF r.rpcError
             THEN IF ~r.hasData
                  THEN [out |-> invalid, fatal |-> FALSE, unpack |-> 0]
                  ELSE LET errorData == ZeroErrorData
                       IN  IF UnpackRpcErrorData(r) = "err"
                           THEN [out |-> <<>>, fatal |-> TRUE, unpack |-> 1]
                           ELSE [out |-> metrics(0, errorData.NumSlotsBehind),
                                 fatal |-> FALSE, unpack |-> 1]
             ELSE [out |-> invalid, fatal |-> FALSE, unpack |-> 0]

(* ------------------------------ Collect -------------------------------- *)

\* mutant: Collect does not call collectBalances
NextStage_noBalances(stage) ==
    CASE stage = "voteAccounts" -> "version"
      [] stage = "version" -> "health"
      [] stage = "balances" -> "health"
      [] stage = "health" -> "minimumLedgerSlot"
      [] stage = "minimumLedgerSlot" -> "firstAvailableBlock"
      [] stage = "firstAvailableBlock" -> "return"

\* the order of the calls in Collect; "return" after the last one
NextStage(stage) ==
    CASE stage = "voteAccounts" -> "version"
      [] stage = "version" -> "balances"
      [] stage = "balances" -> "health"
      [] stage = "health" -> "minimumLedgerSlot"
      [] stage = "minimumLedgerSlot" -> "firstAvailableBlock"
      [] stage = "firstAvailableBlock" -> "return"

\* context.WithCancel(context.Background()): a context of this scrape alone
WithCancel(ctxs, s) == [ctxs EXCEPT ![s] = "active"]

\* mutant: cancel is never deferred
cancel_forgotten(ctxs, s) == ctxs

\* mutant: one context shared by the scrapes in flight
cancel_shared(ctxs, s) ==
    [t \in DOMAIN ctxs |-> IF ctxs[t] = "active" THEN "cancelled" ELSE ctxs[t]]

\* the deferred cancel()
cancel(ctxs, s) == [ctxs EXCEPT ![s] = "cancelled"]

NoCalls == [st \in Stages |-> 0]

Init ==
    /\ workload \in {"sequential", "concurrent"}
    /\ collector = TheCollector
    /\ pc = [s \in Slots |-> "idle"]
    /\ ctx = [s \in Slots |-> "none"]
    /\ ch = [s \in Slots |-> <<>>]
    /\ resp = [s \in Slots |-> NoResp]
    /\ calls = [s \in Slots |-> NoCalls]
    /\ unpackCalls = [s \in Slots |-> 0]
    /\ terminated = FALSE

\* the registry calls Collect for a poll: Collect creates its context
Start(s) ==
    /\ ~terminated
    /\ pc[s] = "idle"
    /\ workload = "sequential" => s = 1
    /\ pc' = [pc EXCEPT ![s] = "voteAccounts"]
    /\ ctx' = WithCancel(ctx, s)
    /\ ch' = [ch EXCEPT ![s] = <<>>]
    /\ resp' = [resp EXCEPT ![s] = NoResp]
    /\ calls' = [calls EXCEPT ![s] = NoCalls]
    /\ unpackCalls' = [unpackCalls EXCEPT ![s] = 0]
    /\ UNCHANGED <<workload, collector, terminated>>

\* a sub-collection returned to Collect: the next call, or the return of
\* Collect with its deferred cancel
Advance(s, stage) ==
    LET next == NextStage(stage)
    IN  IF next = "return"
        THEN /\ pc' = [pc EXCEPT ![s] = "done"]
             /\ ctx' = cancel(ctx, s)
        ELSE /\ pc' = [pc EXCEPT ![s] = next]
             /\ ctx' = ctx

Emit(s, stage, out) ==
    /\ ch' = [ch EXCEPT ![s] = @ \o out]
    /\ calls' = [calls EXCEPT ![s][stage] = @ + 1]

CollectVoteAccounts(s) ==
    /\ ~terminated
    /\ pc[s] = "voteAccounts"
    /\ \E r \in VoteResponses(workload) :
        /\ resp' = [resp EXCEPT ![s].voteAccounts = r]
        /\ Emit(s, "voteAccounts", collectVoteAccounts(collector, r))
    /\ Advance(s, "voteAccounts")
    /\ UNCHANGED <<workload, collector, unpackCalls, terminated>>

CollectVersion(s) ==
    /\ ~terminated
    /\ pc[s] = "version"
    /\ \E r \in VersionResponses(workload) :
        /\ resp' = [resp EXCEPT ![s].version = r]
        /\ Emit(s, "version", collectVersion(collector, r))
    /\ Advance(s, "version")
    /\ UNCHANGED <<workload, collector, unpackCalls, terminated>>

CollectBalances(s) ==
    /\ ~terminated
    /\ pc[s] = "balances"
    /\ \E r \in BalancesResponses(workload) :
        \E order \in MapOrders(FetchBalances(collector.balanceAddresses, r).balances) :
            /\ resp' = [resp EXCEPT ![s].balances = r]
            /\ Emit(s, "balances", collectBalances(collector, r, order))
    /\ Advance(s, "balances")
    /\ UNCHANGED <<workload, collector, unpackCalls, terminated>>

CollectHealth(s) ==
    /\ ~terminated
    /\ pc[s] = "health"
    /\ \E r \in HealthResponses(workload) :
        LET res == collectHealth(collector, r)
        IN  /\ resp' = [resp EXCEPT ![s].health = r]
            /\ Emit(s, "health", res.out)
            /\ unpackCalls' = [unpackCalls EXCEPT ![s] = @ + res.unpack]
            /\ IF res.fatal
               THEN \* logger.Fatalf: os.Exit, no deferred call runs
                    /\ terminated' = TRUE
                    /\ pc' = [pc EXCEPT ![s] = "fatal"]
                    /\ ctx' = ctx
               ELSE /\ terminated' = terminated
                    /\ Advance(s, "health")
    /\ UNCHANGED <<workload, collector>>

CollectMinimumLedgerSlot(s) ==
    /\ ~terminated
    /\ pc[s] = "minimumLedgerSlot"
    /\ \E r \in MinimumLedgerSlotResponses(workload) :
        /\ resp' = [resp EXCEPT ![s].minimumLedgerSlot = r]
        /\ Emit(s, "minimumLedgerSlot", collectMinimumLedgerSlot(collector, r))
    /\ Advance(s, "minimumLedgerSlot")
    /\ UNCHANGED <<workload, collector, unpackCalls, terminated>>

CollectFirstAvailableBlock(s) ==
    /\ ~terminated
    /\ pc[s] = "firstAvailableBlock"
    /\ \E r \in FirstAvailableBlockResponses(workload) :
        /\ resp' = [resp EXCEPT ![s].firstAvailableBlock = r]
        /\ Emit(s, "firstAvailableBlock", collectFirstAvailableBlock(collector, r))
    /\ Advance(s, "firstAvailableBlock")
    /\ UNCHANGED <<workload, collector, unpackCalls, terminated>>

\* the registry has gathered what Collect sent and answers the poll
Finish(s) ==
    /\ ~terminated
    /\ pc[s] = "done"
    /\ pc' = [pc EXCEPT ![s] = "idle"]
    /\ ctx' = [ctx EXCEPT ![s] = "none"]
    /\ ch' = [ch EXCEPT ![s] = <<>>]
    /\ resp' = [resp EXCEPT ![s] = NoResp]
    /\ calls' = [calls EXCEPT ![s] = NoCalls]
    /\ unpackCalls' = [unpackCalls EXCEPT ![s] = 0]
    /\ UNCHANGED <<workload, collector, terminated>>

Step(s) ==
    \/ CollectVoteAccounts(s)
    \/ CollectVersion(s)
    \/ CollectBalances(s)
    \/ CollectHealth(s)
    \/ CollectMinimumLedgerSlot(s)
    \/ CollectFirstAvailableBlock(s)

Next ==
    \/ \E s \in Slots : Start(s)
    \/ \E s \in Slots : CollectVoteAccounts(s)
    \/ \E s \in Slots : CollectVersion(s)
    \/ \E s \in Slots : CollectBalances(s)
    \/ \E s \in Slots : CollectHealth(s)
    \/ \E s \in Slots : CollectMinimumLedgerSlot(s)
    \/ \E s \in Slots : CollectFirstAvailableBlock(s)
    \/ \E s \in Slots : Finish(s)

Spec == Init /\ [][Next]_vars

\* every goroutine running Collect is scheduled, and every query returns
FairSpec == Spec /\ \A s \in Slots : WF_vars(Step(s))

TypeOK ==
    /\ workload \in {"sequential", "concurrent"}
    /\ pc \in [Slots -> Stages \cup {"idle", "done", "fatal"}]
    /\ ctx \in [Slots -> {"none", "active", "cancelled"}]
    /\ terminated \in BOOLEAN

(* --------------------------- claim helpers ----------------------------- *)

FamilyMetrics(q, fams) == SelectSeq(q, LAMBDA o : o.family \in fams)

StageFamilies(stage) ==
    CASE stage = "voteAccounts" ->
            {"solana_validator_active", "solana_validator_active_stake",
             "solana_validator_last_vote", "solana_validator_root_slot",
             "solana_validator_delinquent"}
      [] stage = "version" -> {"solana_node_version"}
      [] stage = "balances" -> {"solana_account_balance"}
      [] stage = "health" -> {"solana_node_is_healthy", "solana_node_num_slots_behind"}
      [] stage = "minimumLedgerSlot" -> {"solana_node_minimum_ledger_slot"}
      [] stage = "firstAvailableBlock" -> {"solana_node_first_available_block"}

AllFamilies == UNION {StageFamilies(st) : st \in Stages}

\* a scrape in which every query succeeds
OkResp ==
    [voteAccounts |-> VoteOk(<<>>, <<>>), version |-> VersionOk("1.18.22"),
     balances |-> BalancesOk({<<a, BalanceOf(a)>> : a \in Range(TheCollector.balanceAddresses)}),
     health |-> HealthOk, minimumLedgerSlot |-> ScalarOk(10),
     firstAvailableBlock |-> ScalarOk(11)]

\* what a scrape sends for the responses rv it has received, stage by stage
EmittedBy(c, rv, stage) ==
    CASE rv[stage].status = "none" -> <<>>
      [] OTHER ->
         CASE stage = "voteAccounts" -> collectVoteAccounts(c, rv.voteAccounts)
           [] stage = "version" -> collectVersion(c, rv.version)
           [] stage = "balances" ->
                collectBalances(c, rv.balances,
                    CHOOSE order \in MapOrders(FetchBalances(c.balanceAddresses,
                                                             rv.balances).balances) : TRUE)
           [] stage = "health" -> collectHealth(c, rv.health).out
           [] stage = "minimumLedgerSlot" ->
                collectMinimumLedgerSlot(c, rv.minimumLedgerSlot)
           [] stage = "firstAvailableBlock" ->
                collectFirstAvailableBlock(c, rv.firstAvailableBlock)

RunAll(c, rv) ==
    EmittedBy(c, rv, "voteAccounts") \o EmittedBy(c, rv, "version")
        \o EmittedBy(c, rv, "balances") \o EmittedBy(c, rv, "health")
        \o EmittedBy(c, rv, "minimumLedgerSlot") \o EmittedBy(c, rv, "firstAvailableBlock")

Undecodable(h) == h.status = "err" /\ h.rpcError /\ h.hasData /\ ~h.decodable

RecoverableHealthFailure(h) == h.status = "err" /\ (~h.rpcError \/ ~h.hasData)

Sentinel(f, e) == [family |-> f, invalid |-> TRUE, value |-> 0, labels |-> <<>>, err |-> e]

Normal(f, v, l) == [family |-> f, invalid |-> FALSE, value |-> v, labels |-> l, err |-> ""]

(* ------------------------------- claims -------------------------------- *)

\* C1: a scrape that returns has invoked each of the six sub-collections
\* exactly once, and for every sub-collection the metrics of its families are
\* those of a scrape in which every other query succeeded.
C1_FailureIsolation ==
    \A s \in Slots :
        pc[s] = "done" =>
            \A st \in Stages :
                /\ calls[s][st] = 1
                /\ SameMetrics(FamilyMetrics(ch[s], StageFamilies(st)),
                               FamilyMetrics(RunAll(TheCollector,
                                                    [OkResp EXCEPT ![st] = resp[s][st]]),
                                             StageFamilies(st)))

C1_Witness ==
    \E s \in Slots :
        /\ pc[s] = "done"
        /\ resp[s].voteAccounts.status = "err"
        /\ resp[s].version.status = "ok"
        /\ resp[s].balances.status = "err"
        /\ resp[s].health = HealthTransportErr
        /\ resp[s].minimumLedgerSlot.status = "ok"
        /\ resp[s].firstAvailableBlock.status = "err"

\* C2: when the vote-accounts query fails, each of the five vote-account
\* families has exactly one failure sentinel and no normal metric, and the
\* other families are as in a scrape whose vote-accounts query succeeded.
C2_VoteFailure ==
    \A s \in Slots :
        resp[s].voteAccounts.status = "err" =>
            /\ \A f \in StageFamilies("voteAccounts") :
                FamilyMetrics(ch[s], {f}) = <<Sentinel(f, resp[s].voteAccounts.err)>>
            /\ pc[s] = "done" =>
                SameMetrics(FamilyMetrics(ch[s], AllFamilies \ StageFamilies("voteAccounts")),
                            FamilyMetrics(RunAll(TheCollector,
                                [resp[s] EXCEPT !.voteAccounts = OkResp.voteAccounts]),
                                AllFamilies \ StageFamilies("voteAccounts")))

C2_Witness ==
    \E s \in Slots :
        /\ pc[s] = "done"
        /\ resp[s].voteAccounts.status = "err"
        /\ resp[s].version.status = "ok"
        /\ resp[s].balances.status = "ok"
        /\ resp[s].health = HealthOk
        /\ resp[s].minimumLedgerSlot.status = "ok"
        /\ resp[s].firstAvailableBlock.status = "ok"

\* C3: once the health sub-collection has run, a successful health query has
\* given node_is_healthy=1 and node_num_slots_behind=0, and a failure whose
\* payload decodes to numSlotsBehind=n has given node_is_healthy=0 and
\* node_num_slots_behind=n, both labelled with the configured identity.
C3_HealthTransformation ==
    \A s \in Slots :
        LET h == resp[s].health
            sent == FamilyMetrics(ch[s], StageFamilies("health"))
            id == <<TheCollector.identity>>
        IN  /\ h.status = "ok" =>
                sent = <<Normal("solana_node_is_healthy", 1, id),
                         Normal("solana_node_num_slots_behind", 0, id)>>
            /\ (h.status = "err" /\ h.rpcError /\ h.hasData /\ h.decodable) =>
                sent = <<Normal("solana_node_is_healthy", 0, id),
                         Normal("solana_node_num_slots_behind", h.numSlotsBehind, id)>>

\* C4: a health failure that is not a structured RPC error, or is one without
\* a payload, gives exactly one sentinel for each health family and no normal
\* metric, never calls the payload decoder, does not end the process, and the
\* scrape goes on to the minimum-ledger-slot and first-available-block
\* sub-collections.
C4_RecoverableHealthFailure ==
    \A s \in Slots :
        RecoverableHealthFailure(resp[s].health) =>
            /\ FamilyMetrics(ch[s], StageFamilies("health")) =
                   <<Sentinel("solana_node_is_healthy", resp[s].health.err),
                     Sentinel("solana_node_num_slots_behind", resp[s].health.err)>>
            /\ unpackCalls[s] = 0
            /\ pc[s] \in {"minimumLedgerSlot", "firstAvailableBlock", "done"}
            /\ workload = "sequential" => ~terminated
            /\ pc[s] = "done" =>
                /\ calls[s]["minimumLedgerSlot"] = 1
                /\ calls[s]["firstAvailableBlock"] = 1

C4_Witness ==
    \E s \in Slots :
        /\ pc[s] = "done"
        /\ resp[s].health = HealthRpcNoData
        /\ calls[s]["firstAvailableBlock"] = 1

C5_Fatal ==
    /\ \A s \in Slots :
        Undecodable(resp[s].health) =>
            /\ terminated
            /\ pc[s] = "fatal"
            /\ FamilyMetrics(ch[s], StageFamilies("health")) = <<>>
            /\ calls[s]["minimumLedgerSlot"] = 0
            /\ calls[s]["firstAvailableBlock"] = 0
    /\ terminated => \E s \in Slots : pc[s] = "fatal" /\ Undecodable(resp[s].health)

\* C5: a health failure whose payload is present but undecodable ends the
\* process: no health metric or sentinel is sent, the two later
\* sub-collections are not invoked, nothing happens afterwards (no result is
\* delivered, no later scrape runs), and no other upstream outcome ends the
\* process.
C5_FatalProtocolViolation == []C5_Fatal /\ [][terminated => UNCHANGED vars]_vars

C5_Witness ==
    \E s \in Slots :
        /\ pc[s] = "fatal"
        /\ terminated
        /\ resp[s].voteAccounts.status = "ok"
        /\ Len(ch[s]) > 0

ValidatorActiveOk(s) ==
    LET va == FamilyMetrics(ch[s], {"solana_validator_active"})
    IN  /\ Len(va) = 2
        /\ \A i \in 1..2 : ~va[i].invalid
        /\ {va[1].labels, va[2].labels} = {<<StateCurrent>>, <<StateDelinquent>>}
        /\ va[1].value + va[2].value =
               Len(resp[s].voteAccounts.Current) + Len(resp[s].voteAccounts.Delinquent)

\* C6 as stated: every scrape has exactly two validator_active metrics, one
\* per state, whose sum is len(current)+len(delinquent).
C6_Original == \A s \in Slots : pc[s] = "done" => ValidatorActiveOk(s)

\* C6: every scrape whose vote-accounts query succeeded has exactly two
\* validator_active metrics, one labelled current and one labelled delinquent,
\* whose sum is len(current)+len(delinquent) of the result.
C6_ValidatorActive ==
    \A s \in Slots :
        resp[s].voteAccounts.status = "ok" => ValidatorActiveOk(s)

C6_Witness ==
    \E s \in Slots :
        /\ pc[s] = "done"
        /\ resp[s].voteAccounts.status = "ok"
        /\ Len(resp[s].voteAccounts.Current) = 2
        /\ Len(resp[s].voteAccounts.Delinquent) = 0

\* C7: after a successful vote-accounts query every validator of current or
\* delinquent has exactly one validator_delinquent metric under its
\* (votekey, nodekey), of value 1 if it is delinquent and 0 if not, and there
\* is no validator_delinquent metric under any other key pair.
C7_ValidatorDelinquent ==
    \A s \in Slots :
        resp[s].voteAccounts.status = "ok" =>
            LET r == resp[s].voteAccounts
                vd == FamilyMetrics(ch[s], {"solana_validator_delinquent"})
                keys(v) == <<v.VotePubkey, v.NodePubkey>>
            IN  /\ \A v \in Range(r.Current) \cup Range(r.Delinquent) :
                    /\ Cardinality({i \in 1..Len(vd) : vd[i].labels = keys(v)}) = 1
                    /\ \A i \in 1..Len(vd) :
                        vd[i].labels = keys(v) =>
                            /\ ~vd[i].invalid
                            /\ vd[i].value = (IF v \in Range(r.Delinquent) THEN 1 ELSE 0)
                /\ \A i \in 1..Len(vd) :
                    \E v \in Range(r.Current) \cup Range(r.Delinquent) :
                        vd[i].labels = keys(v)

C7_Witness ==
    \E s \in Slots :
        /\ pc[s] = "done"
        /\ resp[s].voteAccounts.status = "ok"
        /\ Len(resp[s].voteAccounts.Current) = 1
        /\ Len(resp[s].voteAccounts.Delinquent) = 1
        /\ resp[s].voteAccounts.Current[1].NodePubkey =
               resp[s].voteAccounts.Delinquent[1].NodePubkey

\* C8: at every point of every scrape, the metrics sent for a family are
\* either all normal or exactly one failure sentinel, and the two health
\* families are both sentinel or both normal.
C8_SentinelExclusivity ==
    \A s \in Slots :
        /\ \A f \in AllFamilies :
            LET fm == FamilyMetrics(ch[s], {f})
            IN  \/ \A i \in 1..Len(fm) : ~fm[i].invalid
                \/ Len(fm) = 1 /\ fm[1].invalid
        /\ LET ih == FamilyMetrics(ch[s], {"solana_node_is_healthy"})
               nb == FamilyMetrics(ch[s], {"solana_node_num_slots_behind"})
           IN  /\ Len(ih) = Len(nb)
               /\ \A i \in 1..Len(ih) : ih[i].invalid = nb[i].invalid

C8_Witness ==
    \E s \in Slots :
        /\ pc[s] = "done"
        /\ resp[s].voteAccounts.status = "ok"
        /\ Len(resp[s].voteAccounts.Delinquent) = 2
        /\ resp[s].balances.status = "err"
        /\ resp[s].health = HealthUnhealthy(7)

Returned(s) ==
    /\ pc[s] = "done"
    /\ ctx[s] = "cancelled"
    /\ \A st \in Stages : calls[s][st] = 1

\* C9 as stated: every started scrape eventually completes with all six
\* sub-collections run and its context cancelled.
C9_Original == \A s \in Slots : (pc[s] \in Stages) ~> Returned(s)

\* C9: every started scrape eventually either returns or is cut short by the
\* end of the process; a scrape that is running holds a live context, a scrape
\* that has returned has run all six sub-collections once and cancelled its
\* context, and a scrape that ended the process did not cancel it.
C9_Termination ==
    /\ \A s \in Slots : (pc[s] \in Stages) ~> (pc[s] = "done" \/ terminated)
    /\ [](\A s \in Slots :
            /\ pc[s] = "done" => Returned(s)
            /\ pc[s] \in Stages \cup {"fatal"} => ctx[s] = "active")

C9_Witness ==
    \E s \in Slots :
        /\ Returned(s)
        /\ resp[s].health = HealthTransportErr
        /\ resp[s].voteAccounts.status = "ok"

C10_OwnResponsesOnly ==
    /\ collector = TheCollector
    /\ \A s \in Slots : SameMetrics(ch[s], RunAll(collector, resp[s]))
    /\ \A s \in Slots : (ctx[s] = "active") = (pc[s] \in Stages \cup {"fatal"})

C10_StepIsLocal ==
    /\ collector' = collector
    /\ \A s \in Slots :
        pc'[s] # pc[s] =>
            \A t \in Slots \ {s} :
                /\ pc'[t] = pc[t]
                /\ ctx'[t] = ctx[t]
                /\ ch'[t] = ch[t]
                /\ resp'[t] = resp[t]

\* C10: what a scrape has sent is determined by the responses it has received
\* itself and the collector's configuration; no step writes the collector;
\* every running scrape has a live context of its own; and a step of one
\* scrape, its return and cancel included, leaves the context, the responses
\* and the metrics of every other scrape as they were.
C10_ScrapeIndependence == []C10_OwnResponsesOnly /\ [][C10_StepIsLocal]_vars

C10_Witness ==
    /\ workload = "concurrent"
    /\ pc[1] = "done"
    /\ ctx[1] = "cancelled"
    /\ pc[2] = "minimumLedgerSlot"
    /\ resp[1].voteAccounts.status = "err"
    /\ resp[2].voteAccounts.status = "ok"

====
